---- MODULE Spec2Model ----
(***************************************************************************)
(* Model of framework/ingestion/10_ingestion_dbx.py: detect_issues and     *)
(* run_ingestion over a small file system (source file, landing directory, *)
(* log file) and a UTC clock.                                              *)
(*                                                                         *)
(* Text is a sequence of one-character strings; a Python value is a record *)
(* [t, s] with t the type ("str", "None", "list") and s the payload.       *)
(***************************************************************************)
EXTENDS Integers, Sequences, FiniteSets

\* ------------------------------------------------------------- bounds
MaxRows == 2      \* longest row sequence handed to detect_issues directly
MaxRuns == 2      \* runs of run_ingestion one process performs
MaxClock == 3     \* last instant of the clock, in ticks

\* -------------------------------------------------- module-level config
ENV == "dev"
SOURCE_FILE == "data/source/customers.csv"
LANDING_DIR == "data/landing"
LOGS_DIR == "logs"

\* The clock is finer than the "%S" field of the timestamp format.
TicksPerSecond == 2

Procs == {1, 2}
SeqProcs == {1}

\* ------------------------------------------------------- Python values
None == [t |-> "None", s |-> <<>>]
Str(s) == [t |-> "str", s |-> s]
List(s) == [t |-> "list", s |-> s]
RestKey == "<None>"

Whitespace == {" "}
Digits == {"0", "1", "2", "3", "4", "5", "6", "7", "8", "9"}

RECURSIVE lstrip(_)
lstrip(s) ==
  IF s # <<>> /\ Head(s) \in Whitespace THEN lstrip(Tail(s)) ELSE s

RECURSIVE rstrip(_)
rstrip(s) ==
  IF s # <<>> /\ s[Len(s)] \in Whitespace
  THEN rstrip(SubSeq(s, 1, Len(s) - 1))
  ELSE s

\* str.strip()
strip(s) == rstrip(lstrip(s))

\* dict.get(k, default)
Get(r, k, default) == IF k \in DOMAIN r THEN r[k] ELSE default

\* (x or ""): None and the empty string are falsy
OrEmpty(v) ==
  IF v.t = "None" \/ v.s = <<>> THEN Str(<<>>) ELSE v

DigitVal(c) ==
  CASE c = "0" -> 0 [] c = "1" -> 1 [] c = "2" -> 2 [] c = "3" -> 3
    [] c = "4" -> 4 [] c = "5" -> 5 [] c = "6" -> 6 [] c = "7" -> 7
    [] c = "8" -> 8 [] c = "9" -> 9

RECURSIVE Decimal(_)
Decimal(s) ==
  IF s = <<>> THEN 0
  ELSE 10 * Decimal(SubSeq(s, 1, Len(s) - 1)) + DigitVal(s[Len(s)])

\* int(v): TypeError for a value that is no string; for a string, surrounding
\* whitespace is dropped, one sign is allowed, and the rest must be digits.
int(v) ==
  IF v.t # "str" THEN [exc |-> "TypeError", v |-> 0]
  ELSE LET b == strip(v.s)
           signed == b # <<>> /\ Head(b) \in {"+", "-"}
           d == IF signed THEN Tail(b) ELSE b
       IN IF d # <<>> /\ \A i \in 1..Len(d) : d[i] \in Digits
          THEN [exc |-> "", v |-> IF signed /\ Head(b) = "-"
                                   THEN 0 - Decimal(d) ELSE Decimal(d)]
          ELSE [exc |-> "ValueError", v |-> 0]

\* ------------------------------------------------------- detect_issues
NoIssues == [duplicate_ids |-> 0, missing_name |-> 0, underage |-> 0]

\* The age test of one row: "" when the row passes, else the exception that
\* escapes; under is whether the underage counter is incremented.
AgeCheck(r) ==
  LET a == int(Get(r, "age", Str(<<"0">>)))
  IN [exc |-> IF a.exc = "ValueError" THEN "" ELSE a.exc,
      under |-> a.exc = "ValueError" \/ (a.exc = "" /\ a.v < 18)]

\* One iteration of the loop over rows, on the local state
\* st = [issues, seen_ids, exc].
ScanRow(st, r) ==
  LET cid == strip(OrEmpty(Get(r, "customer_id", None)).s)
      name == strip(OrEmpty(Get(r, "name", None)).s)
      dup == cid \in st.seen_ids
      age == AgeCheck(r)
      i == st.issues
  IN [issues |->
        [duplicate_ids |-> i.duplicate_ids + (IF dup THEN 1 ELSE 0),
         missing_name |-> i.missing_name + (IF name = <<>> THEN 1 ELSE 0),
         underage |-> i.underage + (IF age.exc = "" /\ age.under THEN 1 ELSE 0)],
      seen_ids |-> st.seen_ids \cup {cid},
      exc |-> age.exc]

\* Mutant of Scan: the try/except encloses the loop, so the first row whose
\* age raises ValueError is counted and ends the scan.
RECURSIVE ScanStopsAtValueError(_, _, _)
ScanStopsAtValueError(st, rs, k) ==
  IF k > Len(rs) \/ st.exc # "" THEN st
  ELSE IF int(Get(rs[k], "age", Str(<<"0">>))).exc = "ValueError"
       THEN ScanRow(st, rs[k])
       ELSE ScanStopsAtValueError(ScanRow(st, rs[k]), rs, k + 1)

RECURSIVE Scan(_, _, _)
Scan(st, rs, k) ==
  IF k > Len(rs) \/ st.exc # "" THEN st
  ELSE Scan(ScanRow(st, rs[k]), rs, k + 1)

\* detect_issues(rows): [exc, issues]; issues is the returned dictionary
\* when exc = "", and exc names the exception that escapes otherwise.
detect_issues(rs) ==
  LET st == Scan([issues |-> NoIssues, seen_ids |-> {}, exc |-> ""], rs, 1)
  IN [exc |-> st.exc, issues |-> st.issues]

\* ------------------------------------------------------------- files
NoFile == [exists |-> FALSE, header |-> <<>>, lines |-> <<>>]
File(h, ls) == [exists |-> TRUE, header |-> h, lines |-> ls]

Header == <<"customer_id", "name", "age">>

\* csv.DictReader: the first line names the columns, a blank line is skipped,
\* a short line leaves its missing columns None, and the fields beyond the
\* header go to a list under the key None.
RowOf(h, l) ==
  LET keys == {h[i] : i \in 1..Len(h)}
              \cup (IF Len(l) > Len(h) THEN {RestKey} ELSE {})
  IN [k \in keys |->
        IF k = RestKey THEN List(SubSeq(l, Len(h) + 1, Len(l)))
        ELSE LET i == CHOOSE j \in 1..Len(h) : h[j] = k
             IN IF i <= Len(l) THEN Str(l[i]) ELSE None]

DictReader(f) ==
  LET data == SelectSeq(f.lines, LAMBDA l : l # <<>>)
  IN [i \in 1..Len(data) |-> RowOf(f.header, data[i])]

\* Every prefix of a file's content, the whole content included.
Prefixes(f) ==
  {File(<<>>, <<>>)}
    \cup {File(f.header, SubSeq(f.lines, 1, k)) : k \in 0..Len(f.lines)}

\* ------------------------------------------------------ source files
EmptyFile == File(<<>>, <<>>)
HeaderOnly == File(Header, <<>>)
Example ==
  File(Header,
       << <<<<"1">>, <<"A", "n", "n">>, <<"3", "0">>>>,
          <<<<"1">>, <<>>, <<"1", "5">>>>,
          <<<<"2">>, <<"B", "o">>, <<"a", "b", "c">>>> >>)
ShortRow ==
  File(Header,
       << <<<<"1">>, <<"A", "n", "n">>, <<"3", "0">>>>,
          <<<<"2">>, <<"B", "o">>>> >>)
NoAgeColumn ==
  File(<<"customer_id", "name">>,
       << <<<<"1">>, <<"A", "n", "n">>>>,
          <<<<" ", "1">>, <<" ">>>> >>)
BlankAndExtra ==
  File(Header,
       << <<>>,
          <<<<"3">>, <<"C", "y">>, <<"4", "0">>, <<"x">>>> >>)

Sources ==
  {NoFile, EmptyFile, HeaderOnly, Example, ShortRow, NoAgeColumn,
   BlankAndExtra}

\* ------------------------------------------------------------- state
VARIABLES
  source,       \* the file at SOURCE_FILE
  logsDir,      \* LOGS_DIR exists
  landingDir,   \* LANDING_DIR exists
  log,          \* the file LOGS_DIR/ingestion.log: [exists, entries]
  landing,      \* the files under LANDING_DIR: path -> content
  clock,        \* the current instant, in ticks
  stdout,       \* the text printed so far
  pc,           \* each process's position in run_ingestion
  rows,         \* run_ingestion's local rows
  issues,       \* run_ingestion's local issues
  ts,           \* run_ingestion's local ts
  target_file,  \* run_ingestion's local target_file
  err,          \* the exception a run ended with
  runs,         \* runs each process has started
  log0,         \* history: the log when the process's run started
  landing0,     \* history: the landing files when the run started
  writers,      \* history: path -> the processes that wrote the file
  okRuns,       \* history: runs that completed
  failedRuns    \* history: runs that raised

vars ==
  <<source, logsDir, landingDir, log, landing, clock, stdout, pc, rows,
    issues, ts, target_file, err, runs, log0, landing0, writers, okRuns,
    failedRuns>>

fsVars == <<source, logsDir, landingDir, log, landing, stdout>>
localVars == <<rows, issues, ts, target_file>>
histVars == <<log0, landing0, writers, okRuns, failedRuns>>

NoLog == [exists |-> FALSE, entries |-> <<>>]
NoErr == [type |-> "", at |-> "", path |-> ""]
NoFiles == [n \in {} |-> NoFile]

\* datetime.utcnow().strftime("%Y%m%d_%H%M%S"): the instant cut to the second
strftime(c) == c \div TicksPerSecond

\* Mutant of TargetFile: one fixed target path, whatever the timestamp.
TargetFileFixed(t) == [dir |-> LANDING_DIR, name |-> <<"customers_", 0, ".csv">>]

\* Mutant of TargetFile: the path is named after the instant at full clock
\* resolution instead of the timestamp.
TargetFileByInstant(t) ==
  [dir |-> LANDING_DIR, name |-> <<"customers_", clock, ".csv">>]

\* LANDING_DIR / f"customers_{ts}.csv"
TargetFile(t) == [dir |-> LANDING_DIR, name |-> <<"customers_", t, ".csv">>]

\* log_msg; complete is FALSE for the part of the text a failed write leaves
LogMsg(t, tf, rs, is) ==
  [complete |-> TRUE, env |-> ENV, source |-> SOURCE_FILE, target |-> tf,
   rows |-> Len(rs), duplicate_ids |-> is.duplicate_ids,
   missing_name |-> is.missing_name, underage |-> is.underage, ts |-> t]

\* The files of d with the file at path n set to f.
WriteFile(d, n, f) ==
  [m \in DOMAIN d \cup {n} |-> IF m = n THEN f ELSE d[m]]

Wrote(w, n, p) ==
  [m \in DOMAIN w \cup {n} |->
     (IF m \in DOMAIN w THEN w[m] ELSE {}) \cup (IF m = n THEN {p} ELSE {})]

InitLocals ==
  /\ pc = [p \in Procs |-> "idle"]
  /\ rows = [p \in Procs |-> <<>>]
  /\ issues = [p \in Procs |-> NoIssues]
  /\ ts = [p \in Procs |-> 0]
  /\ target_file = [p \in Procs |-> TargetFile(0)]
  /\ err = [p \in Procs |-> NoErr]
  /\ runs = [p \in Procs |-> 0]
  /\ log0 = [p \in Procs |-> NoLog]
  /\ landing0 = [p \in Procs |-> NoFiles]
  /\ writers = [n \in {} |-> {}]
  /\ failedRuns = 0

\* A file system no run has touched yet.
InitFresh ==
  /\ logsDir = FALSE
  /\ landingDir = FALSE
  /\ log = NoLog
  /\ landing = NoFiles
  /\ okRuns = 0

\* The file system as one earlier completed run over a header-only source,
\* at instant 0, left it.
InitAfterRun ==
  /\ logsDir = TRUE
  /\ landingDir = TRUE
  /\ log = [exists |-> TRUE,
            entries |-> <<LogMsg(strftime(0), TargetFile(strftime(0)),
                                 DictReader(HeaderOnly),
                                 detect_issues(DictReader(HeaderOnly)).issues)>>]
  /\ landing = WriteFile(NoFiles, TargetFile(strftime(0)), HeaderOnly)
  /\ okRuns = 1

Init ==
  /\ source \in Sources
  /\ clock = 0
  /\ stdout = <<>>
  /\ InitLocals
  /\ (InitFresh \/ InitAfterRun)

\* ------------------------------------------------------ run_ingestion
Raise(p, type, at, path) ==
  /\ pc' = [pc EXCEPT ![p] = "raised"]
  /\ err' = [err EXCEPT ![p] = [type |-> type, at |-> at, path |-> path]]
  /\ failedRuns' = failedRuns + 1

\* LOGS_DIR.mkdir(...); LANDING_DIR.mkdir(...)
Mkdirs(p) ==
  /\ pc[p] \in {"idle", "done", "raised"}
  /\ runs[p] < MaxRuns
  /\ runs' = [runs EXCEPT ![p] = @ + 1]
  /\ logsDir' = TRUE
  /\ landingDir' = TRUE
  /\ pc' = [pc EXCEPT ![p] = "check"]
  /\ err' = [err EXCEPT ![p] = NoErr]
  /\ rows' = [rows EXCEPT ![p] = <<>>]
  /\ issues' = [issues EXCEPT ![p] = NoIssues]
  /\ ts' = [ts EXCEPT ![p] = 0]
  /\ target_file' = [target_file EXCEPT ![p] = TargetFile(0)]
  /\ log0' = [log0 EXCEPT ![p] = log]
  /\ landing0' = [landing0 EXCEPT ![p] = landing]
  /\ UNCHANGED <<source, log, landing, clock, stdout, writers, okRuns,
                 failedRuns>>

\* Mutant of CheckSource: the failure is written to the log before it is
\* raised.
CheckSourceLogsFailure(p) ==
  /\ pc[p] = "check"
  /\ IF source.exists
     THEN /\ pc' = [pc EXCEPT ![p] = "read"]
          /\ UNCHANGED <<err, failedRuns, log>>
     ELSE /\ Raise(p, "FileNotFoundError", "check", SOURCE_FILE)
          /\ log' = [exists |-> TRUE,
                     entries |-> Append(log.entries,
                                        LogMsg(0, TargetFile(0), <<>>,
                                               NoIssues))]
  /\ UNCHANGED <<source, logsDir, landingDir, landing, clock, stdout,
                 localVars, runs, log0, landing0, writers, okRuns>>

\* if not SOURCE_FILE.exists(): raise FileNotFoundError(...)
CheckSource(p) ==
  /\ pc[p] = "check"
  /\ IF source.exists
     THEN /\ pc' = [pc EXCEPT ![p] = "read"]
          /\ UNCHANGED <<err, failedRuns>>
     ELSE Raise(p, "FileNotFoundError", "check", SOURCE_FILE)
  /\ UNCHANGED <<fsVars, clock, localVars, runs, log0, landing0, writers,
                 okRuns>>

\* with open(SOURCE_FILE, ...) as f: rows = list(csv.DictReader(f))
ReadRows(p) ==
  /\ pc[p] = "read"
  /\ rows' = [rows EXCEPT ![p] = DictReader(source)]
  /\ pc' = [pc EXCEPT ![p] = "detect"]
  /\ UNCHANGED <<fsVars, clock, issues, ts, target_file, err, runs,
                 histVars>>

\* The open or the read fails with the platform's I/O error.
ReadRowsFail(p) ==
  /\ pc[p] = "read"
  /\ Raise(p, "OSError", "read", SOURCE_FILE)
  /\ UNCHANGED <<fsVars, clock, localVars, runs, log0, landing0, writers,
                 okRuns>>

\* Mutant of Detect: the copy to the landing directory is made before the
\* issues are detected.
DetectAfterCopy(p) ==
  /\ pc[p] = "detect"
  /\ landing' = WriteFile(landing, TargetFile(strftime(clock)), source)
  /\ writers' = Wrote(writers, TargetFile(strftime(clock)), p)
  /\ LET res == detect_issues(rows[p])
     IN IF res.exc = ""
        THEN /\ issues' = [issues EXCEPT ![p] = res.issues]
             /\ pc' = [pc EXCEPT ![p] = "stamp"]
             /\ UNCHANGED <<err, failedRuns>>
        ELSE /\ Raise(p, res.exc, "detect", "")
             /\ UNCHANGED issues
  /\ UNCHANGED <<source, logsDir, landingDir, log, clock, stdout, rows, ts,
                 target_file, runs, log0, landing0, okRuns>>

\* issues = detect_issues(rows)
Detect(p) ==
  /\ pc[p] = "detect"
  /\ LET res == detect_issues(rows[p])
     IN IF res.exc = ""
        THEN /\ issues' = [issues EXCEPT ![p] = res.issues]
             /\ pc' = [pc EXCEPT ![p] = "stamp"]
             /\ UNCHANGED <<err, failedRuns>>
        ELSE /\ Raise(p, res.exc, "detect", "")
             /\ UNCHANGED issues
  /\ UNCHANGED <<fsVars, clock, rows, ts, target_file, runs, log0, landing0,
                 writers, okRuns>>

\* ts = datetime.utcnow().strftime(...); target_file = LANDING_DIR / ...
Stamp(p) ==
  /\ pc[p] = "stamp"
  /\ ts' = [ts EXCEPT ![p] = strftime(clock)]
  /\ target_file' = [target_file EXCEPT ![p] = TargetFile(strftime(clock))]
  /\ pc' = [pc EXCEPT ![p] = "copy"]
  /\ UNCHANGED <<fsVars, clock, rows, issues, err, runs, histVars>>

\* Mutant of Copy: the rows are written back through a CSV writer, which
\* drops the blank lines.
CopyRewritesRows(p) ==
  /\ pc[p] = "copy"
  /\ landing' = WriteFile(landing, target_file[p],
                          [source EXCEPT
                             !.lines = SelectSeq(@, LAMBDA l : l # <<>>)])
  /\ writers' = Wrote(writers, target_file[p], p)
  /\ pc' = [pc EXCEPT ![p] = "log"]
  /\ UNCHANGED <<source, logsDir, landingDir, log, clock, stdout, localVars,
                 err, runs, log0, landing0, okRuns, failedRuns>>

\* shutil.copy2(SOURCE_FILE, target_file)
Copy(p) ==
  /\ pc[p] = "copy"
  /\ landing' = WriteFile(landing, target_file[p], source)
  /\ writers' = Wrote(writers, target_file[p], p)
  /\ pc' = [pc EXCEPT ![p] = "log"]
  /\ UNCHANGED <<source, logsDir, landingDir, log, clock, stdout, localVars,
                 err, runs, log0, landing0, okRuns, failedRuns>>

\* shutil.copy2 fails: before the target is opened, or after some prefix of
\* the content (all of it, when only the metadata copy fails) was written.
CopyFail(p) ==
  /\ pc[p] = "copy"
  /\ \/ UNCHANGED <<landing, writers>>
     \/ \E part \in Prefixes(source) :
          /\ landing' = WriteFile(landing, target_file[p], part)
          /\ writers' = Wrote(writers, target_file[p], p)
  /\ Raise(p, "OSError", "copy", "")
  /\ UNCHANGED <<source, logsDir, landingDir, log, clock, stdout, localVars,
                 runs, log0, landing0, okRuns>>

\* Mutant of AppendLog: the log is opened with mode "w".
AppendLogTruncates(p) ==
  /\ pc[p] = "log"
  /\ log' = [exists |-> TRUE,
             entries |-> <<LogMsg(ts[p], target_file[p], rows[p],
                                  issues[p])>>]
  /\ stdout' = Append(stdout, LogMsg(ts[p], target_file[p], rows[p],
                                      issues[p]))
  /\ pc' = [pc EXCEPT ![p] = "done"]
  /\ okRuns' = okRuns + 1
  /\ UNCHANGED <<source, logsDir, landingDir, landing, clock, localVars, err,
                 runs, log0, landing0, writers, failedRuns>>

\* print(log_msg)
\* with open(LOGS_DIR / "ingestion.log", "a", ...) as lf: lf.write(log_msg)
AppendLog(p) ==
  /\ pc[p] = "log"
  /\ log' = [exists |-> TRUE,
             entries |-> Append(log.entries,
                                LogMsg(ts[p], target_file[p], rows[p],
                                       issues[p]))]
  /\ stdout' = Append(stdout, LogMsg(ts[p], target_file[p], rows[p],
                                      issues[p]))
  /\ pc' = [pc EXCEPT ![p] = "done"]
  /\ okRuns' = okRuns + 1
  /\ UNCHANGED <<source, logsDir, landingDir, landing, clock, localVars, err,
                 runs, log0, landing0, writers, failedRuns>>

\* After print(log_msg) the append fails: at the open, after the open
\* created the file, or after part of the text was written.
AppendLogFail(p) ==
  /\ pc[p] = "log"
  /\ \/ UNCHANGED log
     \/ log' = [log EXCEPT !.exists = TRUE]
     \/ log' = [exists |-> TRUE,
                entries |-> Append(log.entries,
                                   [LogMsg(ts[p], target_file[p], rows[p],
                                           issues[p])
                                      EXCEPT !.complete = FALSE])]
  /\ stdout' = Append(stdout, LogMsg(ts[p], target_file[p], rows[p],
                                      issues[p]))
  /\ Raise(p, "OSError", "log", "")
  /\ UNCHANGED <<source, logsDir, landingDir, landing, clock, localVars, runs,
                 log0, landing0, writers, okRuns>>

\* The clock advances.
Tick ==
  /\ clock < MaxClock
  /\ clock' = clock + 1
  /\ UNCHANGED <<fsVars, pc, localVars, err, runs, histVars>>

\* The steps of a started run.
Steps(p) ==
  \/ CheckSource(p)
  \/ ReadRows(p)
  \/ ReadRowsFail(p)
  \/ Detect(p)
  \/ Stamp(p)
  \/ Copy(p)
  \/ CopyFail(p)
  \/ AppendLog(p)
  \/ AppendLogFail(p)

\* run_ingestion called again and again by one process.
Next ==
  \/ \E p \in SeqProcs : Mkdirs(p) \/ Steps(p)
  \/ Tick

Spec == Init /\ [][Next]_vars

\* Two processes each call run_ingestion once, their steps interleaved.
NextConc ==
  \/ \E p \in Procs : (runs[p] = 0 /\ Mkdirs(p)) \/ Steps(p)
  \/ Tick

SpecConc == Init /\ [][NextConc]_vars

\* ------------------------------------- detect_issues on drawn row lists
Absent == [t |-> "absent", s |-> <<>>]

CidIn == {Absent, None, Str(<<"1">>), Str(<<" ", "1">>)}
NameIn == {Absent, None, Str(<<" ">>), Str(<<"A", "n", "n">>)}
AgeIn ==
  {Absent, None, Str(<<"1", "7">>), Str(<<"1", "8">>), Str(<<"a", "b", "c">>)}

\* The row (a dict) with the columns that are not Absent.
RowFrom(c, n, a) ==
  LET all == [customer_id |-> c, name |-> n, age |-> a]
  IN [k \in {j \in DOMAIN all : all[j] # Absent} |-> all[k]]

RowsIn == {RowFrom(c, n, a) : c \in CidIn, n \in NameIn, a \in AgeIn}

InitDetect ==
  /\ source = NoFile
  /\ clock = 0
  /\ stdout = <<>>
  /\ InitFresh
  /\ \E rs \in UNION {[1..n -> RowsIn] : n \in 0..MaxRows} :
       rows = [p \in Procs |-> IF p \in SeqProcs THEN rs ELSE <<>>]
  /\ pc = [p \in Procs |-> IF p \in SeqProcs THEN "detect" ELSE "idle"]
  /\ issues = [p \in Procs |-> NoIssues]
  /\ ts = [p \in Procs |-> 0]
  /\ target_file = [p \in Procs |-> TargetFile(0)]
  /\ err = [p \in Procs |-> NoErr]
  /\ runs = [p \in Procs |-> 0]
  /\ log0 = [p \in Procs |-> NoLog]
  /\ landing0 = [p \in Procs |-> NoFiles]
  /\ writers = [n \in {} |-> {}]
  /\ failedRuns = 0

NextDetect == \E p \in SeqProcs : Detect(p)

SpecDetect == InitDetect /\ [][NextDetect]_vars

\* =============================================================== claims
IsPrefix(a, b) == Len(a) <= Len(b) /\ SubSeq(b, 1, Len(a)) = a

\* The entries of a log written in full.
Complete(l) == SelectSeq(l.entries, LAMBDA e : e.complete)

\* What a caller of detect_issues observes: the exception that escaped, or
\* the returned counters.
Outcome(res) ==
  IF res.exc = "" THEN res ELSE [exc |-> res.exc, issues |-> NoIssues]

\* What the caller of detect_issues holds in process p once it has acted.
Observed(p) ==
  IF pc[p] = "stamp" THEN [exc |-> "", issues |-> issues[p]]
  ELSE [exc |-> err[p].type, issues |-> NoIssues]

Perms(n) ==
  {f \in [1..n -> 1..n] : \A i, j \in 1..n : f[i] = f[j] => i = j}

\* The trimmed customer_id of a row, absent or null counting as "".
TrimmedId(r) ==
  LET v == IF "customer_id" \in DOMAIN r THEN r["customer_id"] ELSE None
  IN IF v.t = "str" THEN strip(v.s) ELSE <<>>

\* The age of a row is absent, does not parse as an integer, or parses to an
\* integer below 18.
UnderageRow(r) ==
  \/ "age" \notin DOMAIN r
  \/ int(r["age"]).exc # ""
  \/ int(r["age"]).v < 18

Counters == {"duplicate_ids", "missing_name", "underage"}

\* ---- C1
\* C1: when no file exists at the source path, a run never gets past the
\* source check, and once it has raised, the error is FileNotFoundError naming
\* SOURCE_FILE, the landing files are those the run found and the log is the
\* log the run found (unchanged, or still absent).
C1_MissingSource ==
  \A p \in SeqProcs :
    ~source.exists =>
      /\ pc[p] \in {"idle", "check", "raised"}
      /\ pc[p] = "raised" =>
           /\ err[p].type = "FileNotFoundError"
           /\ err[p].path = SOURCE_FILE
           /\ landing = landing0[p]
           /\ log = log0[p]

\* A run over a missing source has raised; the directories were created by
\* it and the log is still absent.
C1_Witness ==
  /\ ~source.exists
  /\ pc[1] = "raised"
  /\ err[1].type = "FileNotFoundError"
  /\ logsDir /\ landingDir
  /\ ~log.exists

\* ---- C2
\* C2: for every row sequence whose customer_id, name and age are each absent,
\* null or a string, detect_issues returns an IssueCounters value (three
\* natural-number counters) and no exception escapes it.
C2_NoExceptionEscapes ==
  \A p \in SeqProcs :
    pc[p] # "detect" =>
      /\ pc[p] = "stamp"
      /\ err[p] = NoErr
      /\ DOMAIN issues[p] = Counters
      /\ \A c \in Counters : issues[p][c] \in 0..Len(rows[p])

\* ---- C3
\* C3 as stated: a run that has raised, at whichever step, left the landing
\* files and the log as it found them.
C3_NoArtifactsOnAnyFailure ==
  \A p \in SeqProcs :
    pc[p] = "raised" => landing = landing0[p] /\ log = log0[p]

\* C3 amended: a run that raised at the source check, the read or the issue
\* detection left the landing files and the log as it found them; a run that
\* raised at the copy left the log as it found it; and a run that raised at
\* any step added no complete entry to the log.
C3_NoArtifactsBeforeCopy ==
  \A p \in SeqProcs :
    pc[p] = "raised" =>
      /\ err[p].at \in {"check", "read", "detect"} =>
           landing = landing0[p] /\ log = log0[p]
      /\ err[p].at = "copy" => log = log0[p]
      /\ Complete(log) = Complete(log0[p])

\* A run raised in detect_issues, after the read and before the copy.
C3_Witness ==
  /\ pc[1] = "raised"
  /\ err[1].at = "detect"
  /\ err[1].type = "TypeError"
  /\ source = ShortRow

\* ---- C4
\* C4: when a run has completed, the landing file it wrote holds exactly the
\* content of the source file, whatever the counters are (for a header-only
\* source the row count and the counters are 0), and no step changes the
\* source file.
C4_CopyFidelity ==
  /\ [](\A p \in SeqProcs :
          pc[p] = "done" =>
            /\ target_file[p] \in DOMAIN landing
            /\ landing[target_file[p]] = source
            /\ source = HeaderOnly =>
                 Len(rows[p]) = 0 /\ issues[p] = NoIssues)
  /\ [][source' = source]_vars

\* A run completed with every counter above zero and a verbatim copy.
C4_Witness ==
  /\ pc[1] = "done"
  /\ source = Example
  /\ issues[1] = [duplicate_ids |-> 1, missing_name |-> 1, underage |-> 2]
  /\ landing[target_file[1]] = Example

\* ---- C5
\* C5: every step leaves the log's earlier content as a prefix of its new
\* content and never removes the file; the step that completes a run appends
\* exactly one entry, the run's summary, creating the file if absent; and no
\* other step of a run that goes on changes the log.
C5_LogAppendOnly ==
  [][/\ IsPrefix(log.entries, log'.entries)
     /\ log.exists => log'.exists
     /\ \A p \in SeqProcs :
          /\ pc'[p] = "done" /\ pc[p] # "done" =>
               /\ log'.exists
               /\ log'.entries =
                    Append(log.entries,
                           LogMsg(ts[p], target_file[p], rows[p], issues[p]))
          /\ pc'[p] \notin {"done", "raised"} => log' = log]_vars

\* A completed run appended its entry after the entry an earlier run left.
C5_Witness ==
  /\ pc[1] = "done"
  /\ Len(log0[1].entries) = 1
  /\ Len(log.entries) = 2
  /\ log.entries[1] = log0[1].entries[1]
  /\ log.entries[2].rows = 3

\* ---- C6
\* C6: for every row sequence, detect_issues returns duplicate_ids equal to
\* the number of rows minus the number of distinct trimmed customer_id values
\* (absent or null counting as the empty string).
C6_DuplicateCount ==
  \A p \in SeqProcs :
    pc[p] # "detect" =>
      /\ pc[p] = "stamp"
      /\ issues[p].duplicate_ids =
           Len(rows[p])
             - Cardinality({TrimmedId(rows[p][i]) : i \in 1..Len(rows[p])})

\* ---- C7
\* C7: for every row sequence, detect_issues returns underage equal to the
\* number of rows whose age is absent, fails to parse as an integer, or parses
\* to an integer below 18.
C7_UnderageCount ==
  \A p \in SeqProcs :
    pc[p] # "detect" =>
      /\ pc[p] = "stamp"
      /\ issues[p].underage =
           Cardinality({i \in 1..Len(rows[p]) : UnderageRow(rows[p][i])})

\* ---- C8
\* C8 as stated: while two runs are both between their copy and their log
\* append, neither has written the other's landing file.
C8_OnlyLogShared ==
  \A p, q \in Procs :
    p # q /\ pc[p] = "log" /\ pc[q] = "log" =>
      q \notin writers[target_file[p]]

\* C8 amended: a run that has copied shares its landing file with no run whose
\* timestamp differs from its own: the other run has not written that file,
\* and once the other run has copied too, the two target paths differ.
C8_DistinctStampsDistinctFiles ==
  \A p, q \in Procs :
    p # q /\ pc[p] \in {"log", "done"} /\ ts[q] # ts[p] =>
      /\ q \notin writers[target_file[p]]
      /\ pc[q] \in {"log", "done"} => target_file[q] # target_file[p]

\* Both runs completed, stamped in different seconds, each the only writer of
\* its landing file.
C8_Witness ==
  /\ pc[1] = "done" /\ pc[2] = "done"
  /\ ts[1] # ts[2]
  /\ writers[target_file[1]] = {1}
  /\ writers[target_file[2]] = {2}

C10_OneFilePerTimestamp ==
  failedRuns = 0 /\ (\A p \in SeqProcs : pc[p] \in {"idle", "done"}) =>
    /\ Len(log.entries) = okRuns
    /\ DOMAIN landing = {log.entries[i].target : i \in 1..Len(log.entries)}
    /\ Cardinality(DOMAIN landing)
         = Cardinality({log.entries[i].ts : i \in 1..Len(log.entries)})
    /\ \A i, j \in 1..Len(log.entries) :
         log.entries[i].ts = log.entries[j].ts =>
           log.entries[i].target = log.entries[j].target

\* Three completed runs, the first two in the same second: three entries, two
\* landing files, and the first file now holds the second run's copy.
C10_Witness ==
  /\ failedRuns = 0
  /\ pc[1] = "done"
  /\ Len(log.entries) = 3
  /\ log.entries[1].ts = log.entries[2].ts
  /\ log.entries[3].ts # log.entries[1].ts
  /\ Cardinality(DOMAIN landing) = 2
  /\ landing[log.entries[1].target] = Example
====
